---- MODULE Spec2Model ----
(***************************************************************************)
(* Model of the Revise editor application (src/src/application.rs): the    *)
(* run loop, key dispatch, the interactive prompt with the save and search *)
(* commands, cursor movement and scroll recomputation.  Document, Row and  *)
(* Terminal live outside application.rs; the operations of Document that   *)
(* the editor calls are modelled from their contract in spec.md.           *)
(*                                                                         *)
(* Strings are sequences of one-character strings.  Positions are records  *)
(* [x, y].  All coordinates stay far below usize::MAX (they are bounded by *)
(* the length of a Vec / String), so saturating_add never saturates and is *)
(* plain addition; saturating_sub is kept.                                 *)
(***************************************************************************)
EXTENDS Integers, Sequences, FiniteSets, TLC

VARIABLES
    pc,                \* position of the control flow in run()/prompt()
    size,              \* terminal.size(): [width, height]
    should_quit,
    cursor_position,
    offset,
    rows,              \* document.rows
    filename,          \* document.filename : Option<String>
    dirty,             \* document.is_changed()
    status_message,    \* status_message.text
    quit_times,
    highlighted_word,  \* Option<String>
    prompt_kind,       \* which prompt() call is on the stack
    result,            \* prompt(): let mut result
    old_position,      \* search(): let old_position
    direction,         \* search(): let mut direction
    event,             \* process_event(): let event = Terminal::read_event()?
    prompt_event,      \* prompt(): let event = Terminal::read_event()?
    screen             \* what the last call of refresh_screen did

vars == <<pc, size, should_quit, cursor_position, offset, rows, filename,
          dirty, status_message, quit_times, highlighted_word, prompt_kind,
          result, old_position, direction, event, prompt_event, screen>>

(***************************************************************************)
(* Bounds of the model.                                                    *)
(***************************************************************************)
MaxRows == 2
MaxRowLen == 2
MaxQuery == 1
MaxDim == 2
MaxCoord == 3

Chars == {"a"}
NL == "\n"

QUIT_TIME == 1

None == [some |-> FALSE, val |-> <<>>]
Some(v) == [some |-> TRUE, val |-> v]

Position(px, py) == [x |-> px, y |-> py]

StatusMessage(t, s) == [text |-> t, input |-> s]
Msg(t) == StatusMessage(t, <<>>)

SatSub(a, b) == IF a > b THEN a - b ELSE 0

(***************************************************************************)
(* Input events, as the patterns of process_key, prompt and the search     *)
(* callback tell them apart: <<kind, character>>.                          *)
(***************************************************************************)
Key(k) == <<k, "">>
CharKey(c) == <<"Char", c>>
ShiftKey(c) == <<"Shift", c>>
CtrlKey(c) == <<"Ctrl", c>>
NoEvent == Key("none")

PlainKeys == {Key("Esc"), Key("Backspace"), Key("Right"), Key("Down"),
              Key("Left"), Key("Up"), Key("OtherKey")}
NonKey == Key("NonKey")

(***************************************************************************)
(* Document (modelled from spec.md 4.1, 4.2, 4.4).                         *)
(***************************************************************************)
RowLen(rws, y) == IF y < Len(rws) THEN Len(rws[y + 1]) ELSE 0

Min(a, b) == IF a < b THEN a ELSE b

\* Row.insert_char(col, ch): col is clamped to [0, length]
insert_char(row, col, ch) ==
    LET c == Min(col, Len(row))
    IN  SubSeq(row, 1, c) \o <<ch>> \o SubSeq(row, c + 1, Len(row))

\* Row.split(col): <<receiver truncated to [0, col), the new row>>
split(row, col) ==
    LET c == Min(col, Len(row))
    IN  <<SubSeq(row, 1, c), SubSeq(row, c + 1, Len(row))>>

\* Document.insert fails with OutOfBounds iff position.y > rows.len()
insert_ok(rws, at) == at.y <= Len(rws)

\* Document.insert(position, ch), the rows after a successful insert
insert(rws, at, ch) ==
    IF ch = NL
    THEN IF at.y = Len(rws)
         THEN Append(rws, <<>>)
         ELSE LET parts == split(rws[at.y + 1], at.x)
              IN  SubSeq(rws, 1, at.y) \o <<parts[1], parts[2]>>
                  \o SubSeq(rws, at.y + 2, Len(rws))
    ELSE IF at.y = Len(rws)
         THEN Append(rws, <<ch>>)
         ELSE [rws EXCEPT ![at.y + 1] = insert_char(rws[at.y + 1], at.x, ch)]

\* the query occurs in row y starting at column x
Occurs(rws, q, x, y) ==
    /\ Len(q) > 0
    /\ x + Len(q) <= Len(rws[y + 1])
    /\ SubSeq(rws[y + 1], x + 1, x + Len(q)) = q

Matches(rws, q) ==
    UNION {{Position(x, y) : x \in {c \in 0..Len(rws[y + 1]) : Occurs(rws, q, c, y)}} :
           y \in 0..Len(rws) - 1}

Before(p, q) == p.y < q.y \/ (p.y = q.y /\ p.x < q.x)

First(S) == CHOOSE p \in S : \A q \in S : p = q \/ Before(p, q)
Last(S) == CHOOSE p \in S : \A q \in S : p = q \/ Before(q, p)

\* Document.find(query, from_position, direction)
find(rws, q, at, dir) ==
    LET all == Matches(rws, q)
        after == {p \in all : Before(at, p)}
        before == {p \in all : Before(p, at)}
    IN  IF all = {} THEN None
        ELSE IF dir = "Forward"
             THEN Some(First(IF after # {} THEN after ELSE all))
             ELSE Some(Last(IF before # {} THEN before ELSE all))

(***************************************************************************)
(* Revise::move_cursor and Revise::scroll.                                 *)
(***************************************************************************)
\* the arms of the match of move_cursor: the position before the final clamp
move_up(cur) == Position(cur.x, SatSub(cur.y, 1))

\* Down without the test y < height
move_down_unguarded(cur, rws) == Position(cur.x, cur.y + 1)

move_down(cur, rws) ==
    Position(cur.x, IF cur.y < Len(rws) THEN cur.y + 1 ELSE cur.y)

\* Left at column 0 goes to column 0 of the previous row
move_left_no_wrap(cur, rws) ==
    IF cur.x > 0 THEN Position(cur.x - 1, cur.y)
    ELSE IF cur.y > 0 THEN Position(0, cur.y - 1)
    ELSE cur

move_left(cur, rws) ==
    IF cur.x > 0 THEN Position(cur.x - 1, cur.y)
    ELSE IF cur.y > 0 THEN Position(RowLen(rws, cur.y - 1), cur.y - 1)
    ELSE cur

\* Right that wraps one column early
move_right_early_wrap(cur, rws) ==
    IF cur.x + 1 < RowLen(rws, cur.y) THEN Position(cur.x + 1, cur.y)
    ELSE IF cur.y < Len(rws) THEN Position(0, cur.y + 1)
    ELSE cur

move_right(cur, rws) ==
    IF cur.x < RowLen(rws, cur.y) THEN Position(cur.x + 1, cur.y)
    ELSE IF cur.y < Len(rws) THEN Position(0, cur.y + 1)
    ELSE cur

page_up(cur, terminal_height) ==
    Position(cur.x, IF cur.y > terminal_height
                    THEN SatSub(cur.y, terminal_height) ELSE 0)

\* PageDown that moves by one row
page_down_one_row(cur, rws, terminal_height) ==
    Position(cur.x, IF cur.y + 1 < Len(rws) THEN cur.y + 1 ELSE Len(rws))

page_down(cur, rws, terminal_height) ==
    Position(cur.x, IF cur.y + terminal_height < Len(rws)
                    THEN cur.y + terminal_height ELSE Len(rws))

\* move_cursor without the final clamp
clamp_x_missing(p, rws) == p

\* the end of move_cursor: x is clamped to the length of the row it is on
clamp_x(p, rws) ==
    LET width == RowLen(rws, p.y)
    IN  Position(IF p.x > width THEN width ELSE p.x, p.y)

move_cursor(cur, rws, sz, k) ==
    clamp_x(CASE k = "Up" -> move_up(cur)
              [] k = "Down" -> move_down(cur, rws)
              [] k = "Left" -> move_left(cur, rws)
              [] k = "Right" -> move_right(cur, rws)
              [] k = "PageUp" -> page_up(cur, sz.height)
              [] k = "PageDown" -> page_down(cur, rws, sz.height)
              [] k = "Home" -> Position(0, cur.y)
              [] k = "End" -> Position(RowLen(rws, cur.y), cur.y)
              [] OTHER -> cur,
            rws)

\* scroll with > in place of >=
scroll_axis_late(c, o, extent) ==
    IF c < o THEN c
    ELSE IF c > o + extent THEN SatSub(c, extent) + 1
    ELSE o

scroll_axis(c, o, extent) ==
    IF c < o THEN c
    ELSE IF c >= o + extent THEN SatSub(c, extent) + 1
    ELSE o

scroll(cur, off, sz) ==
    Position(scroll_axis(cur.x, off.x, sz.width),
             scroll_axis(cur.y, off.y, sz.height))

(***************************************************************************)
(* Revise::new: the state after construction.  The document is either the  *)
(* default (no argument, or the file could not be opened) or a file that   *)
(* was opened.                                                             *)
(***************************************************************************)
Sizes == [width : 1..MaxDim, height : 1..MaxDim]

OpenedDocs == {<<<<"b">>>>, <<<<"a">>, <<"a">>>>}

HelpText == "HELP: Ctrl-F = find | Ctrl-S = save | Ctrl-Q = quit"
OpenErrText == "ERR: Could not open file: "
SaveAsText == "Save as: "
SearchText == "Search (ESC to cancel, Arrows to navigate): "
WarningText == "WARNING! File has unsaved changes. Press Ctrl-Q {} more time to quit."
InsertErrText == "Failed to paste content: "
SavedText == "File saved successfully."
WriteErrText == "Error writing file!"
AbortedText == "Save aborted."

\* draw_rows: the indices of the rows of the document that are drawn, one
\* per terminal row for which document.row(offset.y + terminal_row) is Some
draw_rows(off, sz, rws) ==
    {off.y + terminal_row : terminal_row \in 0..sz.height - 1}
        \cap (0..Len(rws) - 1)

\* no call of refresh_screen yet
NoScreen == [cleared |-> FALSE, until_row |-> None, highlight_ok |-> TRUE,
             drawn |-> {}]

\* refresh_screen without the branch on should_quit
refresh_screen_always_draws(sq, off, sz, rws, outcome) ==
    [cleared |-> FALSE,
     until_row |-> Some(off.y + sz.height),
     highlight_ok |-> outcome # "highlight_err",
     drawn |-> IF outcome = "highlight_err" THEN {}
               ELSE draw_rows(off, sz, rws)]

\* refresh_screen: clear_screen when should_quit; otherwise
\* Document.highlight(.., Some(offset.y + height)) and, if it returned Ok,
\* draw_rows; outcome tells whether highlight or flush failed
refresh_screen(sq, off, sz, rws, outcome) ==
    IF sq
    THEN [cleared |-> TRUE, until_row |-> None, highlight_ok |-> TRUE,
          drawn |-> {}]
    ELSE [cleared |-> FALSE,
          until_row |-> Some(off.y + sz.height),
          highlight_ok |-> outcome # "highlight_err",
          drawn |-> IF outcome = "highlight_err" THEN {}
                    ELSE draw_rows(off, sz, rws)]

\* the ways refresh_screen can fail: highlight is not called when should_quit
RefreshErrors(sq) ==
    IF sq THEN {"flush_err"} ELSE {"highlight_err", "flush_err"}

NewCommon ==
    /\ pc = "main_refresh"
    /\ size \in Sizes
    /\ should_quit = FALSE
    /\ cursor_position = Position(0, 0)
    /\ offset = Position(0, 0)
    /\ dirty = FALSE
    /\ quit_times = QUIT_TIME
    /\ highlighted_word = None
    /\ prompt_kind = "none"
    /\ result = <<>>
    /\ old_position = Position(0, 0)
    /\ direction = "Forward"
    /\ event = NoEvent
    /\ prompt_event = NoEvent
    /\ screen = NoScreen

Init ==
    /\ NewCommon
    /\ \/ /\ rows = <<>>
          /\ filename = None
          /\ status_message \in {Msg(HelpText), Msg(OpenErrText)}
       \/ /\ rows \in OpenedDocs
          /\ filename = Some(<<"a">>)
          /\ status_message = Msg(HelpText)

(***************************************************************************)
(* Revise::run and Revise::refresh_screen.                                 *)
(***************************************************************************)
document == <<rows, filename, dirty>>
prompt_locals == <<prompt_kind, result, old_position, direction>>

\* refresh_screen succeeds; run breaks out of the loop when should_quit
RefreshScreenOk ==
    /\ pc = "main_refresh"
    /\ pc' = IF should_quit THEN "run_ok" ELSE "main_read"
    /\ screen' = refresh_screen(should_quit, offset, size, rows, "ok")
    /\ UNCHANGED <<size, should_quit, cursor_position, offset, document,
                   status_message, quit_times, highlighted_word,
                   prompt_locals, event, prompt_event>>

\* Document.highlight or Terminal::flush fails: run returns the error
RefreshScreenErr ==
    /\ pc = "main_refresh"
    /\ pc' = "run_err_refresh"
    /\ \E outcome \in RefreshErrors(should_quit) :
          screen' = refresh_screen(should_quit, offset, size, rows, outcome)
    /\ UNCHANGED <<size, should_quit, cursor_position, offset, document,
                   status_message, quit_times, highlighted_word,
                   prompt_locals, event, prompt_event>>

(***************************************************************************)
(* Revise::process_event: the statements after the dispatch of the event   *)
(* (scroll, reset of the quit counter), given the cursor, offset, status   *)
(* message and quit counter that process_key left.                         *)
(***************************************************************************)
process_event_tail(cur, off, sm, qt) ==
    /\ cursor_position' = cur
    /\ offset' = scroll(cur, off, size)
    /\ quit_times' = (IF qt < QUIT_TIME THEN QUIT_TIME ELSE qt)
    /\ status_message' = (IF qt < QUIT_TIME THEN Msg("") ELSE sm)
    /\ pc' = "main_refresh"

\* Terminal::read_event()? fails in process_event: run returns the error
ReadEventErr ==
    /\ pc = "main_read"
    /\ pc' = "run_err_event"
    /\ UNCHANGED <<size, screen, should_quit, cursor_position, offset, document,
                   status_message, quit_times, highlighted_word,
                   prompt_locals, event, prompt_event>>

\* quit without the test of the unsaved changes
quit_unconfirmed ==
    /\ pc = "main_read"
    /\ event' = CtrlKey("q")
    /\ prompt_event' = NoEvent
    /\ should_quit' = TRUE
    /\ process_event_tail(cursor_position, offset, status_message, quit_times)
    /\ UNCHANGED <<size, screen, document, highlighted_word, prompt_locals>>

\* Ctrl-Q: process_key returns self.quit()
quit ==
    /\ pc = "main_read"
    /\ event' = CtrlKey("q")
    /\ prompt_event' = NoEvent
    /\ IF quit_times > 0 /\ dirty
       THEN /\ should_quit' = should_quit
            /\ process_event_tail(cursor_position, offset,
                                  StatusMessage(WarningText, <<quit_times>>),
                                  quit_times - 1)
       ELSE /\ should_quit' = TRUE
            /\ process_event_tail(cursor_position, offset, status_message,
                                  quit_times)
    /\ UNCHANGED <<size, screen, document, highlighted_word, prompt_locals>>

\* Document.save: the dirty flag after a write that succeeded or failed
document_save(ok, dt) == IF ok THEN FALSE ELSE dt

\* save that does not look at the result of Document.save
save_status_unchecked(ok) == Msg(SavedText)

\* save: the status message after Document.save returned
save_status(ok) == IF ok THEN Msg(SavedText) ELSE Msg(WriteErrText)

\* Ctrl-S on a named document: Document.save succeeds or fails
save_named ==
    /\ pc = "main_read"
    /\ filename.some
    /\ event' = CtrlKey("s")
    /\ prompt_event' = NoEvent
    /\ \E ok \in BOOLEAN :
          /\ dirty' = document_save(ok, dirty)
          /\ process_event_tail(cursor_position, offset, save_status(ok),
                                quit_times)
    /\ UNCHANGED <<size, screen, should_quit, rows, filename, highlighted_word,
                   prompt_locals>>

\* Ctrl-S on an unnamed document: save enters prompt("Save as: ")
save_prompt ==
    /\ pc = "main_read"
    /\ ~filename.some
    /\ event' = CtrlKey("s")
    /\ prompt_event' = NoEvent
    /\ prompt_kind' = "save"
    /\ result' = <<>>
    /\ status_message' = StatusMessage(SaveAsText, <<>>)
    /\ pc' = "prompt_refresh"
    /\ UNCHANGED <<size, screen, should_quit, cursor_position, offset, document,
                   quit_times, highlighted_word, old_position, direction>>

\* Ctrl-F: search saves the cursor and enters prompt("Search ...")
search_prompt ==
    /\ pc = "main_read"
    /\ event' = CtrlKey("f")
    /\ prompt_event' = NoEvent
    /\ old_position' = cursor_position
    /\ direction' = "Forward"
    /\ prompt_kind' = "search"
    /\ result' = <<>>
    /\ status_message' = StatusMessage(SearchText, <<>>)
    /\ pc' = "prompt_refresh"
    /\ UNCHANGED <<size, screen, should_quit, cursor_position, offset, document,
                   quit_times, highlighted_word>>

\* the model stops typing where the next character would leave its bounds
CanType(c) ==
    IF c = NL \/ cursor_position.y >= Len(rows)
    THEN Len(rows) < MaxRows
    ELSE Len(rows[cursor_position.y + 1]) < MaxRowLen

\* Char(c) with no modifier or Shift: Document.insert, then move right
insert_key(e) ==
    /\ pc = "main_read"
    /\ CanType(e[2])
    /\ event' = e
    /\ prompt_event' = NoEvent
    /\ IF insert_ok(rows, cursor_position)
       THEN /\ rows' = insert(rows, cursor_position, e[2])
            /\ dirty' = TRUE
            /\ process_event_tail(
                   move_cursor(cursor_position, rows', size, "Right"),
                   offset, status_message, quit_times)
       ELSE /\ UNCHANGED <<rows, dirty>>
            /\ process_event_tail(cursor_position, offset,
                                  Msg(InsertErrText), quit_times)
    /\ UNCHANGED <<size, screen, should_quit, filename, highlighted_word,
                   prompt_locals>>

\* every other event: process_key does nothing
ignored_key(e) ==
    /\ pc = "main_read"
    /\ event' = e
    /\ prompt_event' = NoEvent
    /\ process_event_tail(cursor_position, offset, status_message, quit_times)
    /\ UNCHANGED <<size, screen, should_quit, document, highlighted_word,
                   prompt_locals>>

(***************************************************************************)
(* Revise::prompt, with the callbacks of save (none) and search.           *)
(***************************************************************************)
PromptText == IF prompt_kind = "save" THEN SaveAsText ELSE SearchText

\* the callback with the coordinates of the match exchanged
search_callback_swapped(cur, off, dir, rws, sz, e, query) ==
    LET moved == e \in {Key("Right"), Key("Down")}
        dir1 == IF moved THEN "Forward"
                ELSE IF e \in {Key("Left"), Key("Up")} THEN "Backward"
                ELSE IF e = NonKey THEN dir
                ELSE "Forward"
        cur1 == IF moved THEN move_cursor(cur, rws, sz, "Right") ELSE cur
        found == find(rws, query, cur1, dir1)
        swapped == Position(found.val.y, found.val.x)
    IN  [cursor |-> IF found.some THEN swapped
                    ELSE IF moved THEN move_cursor(cur1, rws, sz, "Left")
                    ELSE cur1,
         offset |-> IF found.some THEN scroll(swapped, off, sz) ELSE off,
         direction |-> dir1,
         highlighted |-> Some(query)]

\* the closure passed to prompt by search, called with the event just read
\* and the current input: the cursor, offset, direction and highlighted
\* word it leaves
search_callback(cur, off, dir, rws, sz, e, query) ==
    LET moved == e \in {Key("Right"), Key("Down")}
        dir1 == IF moved THEN "Forward"
                ELSE IF e \in {Key("Left"), Key("Up")} THEN "Backward"
                ELSE IF e = NonKey THEN dir
                ELSE "Forward"
        cur1 == IF moved THEN move_cursor(cur, rws, sz, "Right") ELSE cur
        found == find(rws, query, cur1, dir1)
    IN  [cursor |-> IF found.some THEN found.val
                    ELSE IF moved THEN move_cursor(cur1, rws, sz, "Left")
                    ELSE cur1,
         offset |-> IF found.some THEN scroll(found.val, off, sz) ELSE off,
         direction |-> dir1,
         highlighted |-> Some(query)]

\* callback(self, event, &result), then the head of the next iteration of
\* the loop of prompt, which sets the status message to prompt + result
callback(e, query) ==
    /\ IF prompt_kind = "search"
       THEN LET r == search_callback(cursor_position, offset, direction,
                                     rows, size, e, query)
            IN  /\ cursor_position' = r.cursor
                /\ offset' = r.offset
                /\ direction' = r.direction
                /\ highlighted_word' = r.highlighted
       ELSE UNCHANGED <<cursor_position, offset, direction, highlighted_word>>
    /\ status_message' = StatusMessage(PromptText, query)
    /\ pc' = "prompt_refresh"

\* search that does not restore the cursor
search_finish_no_restore(cur, off, old, sz, query) ==
    [cursor |-> cur, offset |-> off]

\* the rest of search after prompt returned query (None after an error):
\* the cursor and offset it leaves
search_finish(cur, off, old, sz, query) ==
    IF query.some
    THEN [cursor |-> cur, offset |-> off]
    ELSE [cursor |-> old, offset |-> scroll(old, off, sz)]

\* search that leaves the highlighted word in place
search_end_highlight_kept(hw) == hw

\* the last statement of search: self.highlighted_word = None
search_end_highlight(hw) == None

\* prompt returned query to save or search with status message sm; the
\* caller finishes and process_event completes
prompt_return(query, sm) ==
    /\ prompt_kind' = "none"
    /\ result' = <<>>
    /\ old_position' = Position(0, 0)
    /\ direction' = "Forward"
    /\ IF prompt_kind = "search"
       THEN LET r == search_finish(cursor_position, offset, old_position,
                                   size, query)
            IN  /\ highlighted_word' = search_end_highlight(highlighted_word)
                /\ process_event_tail(r.cursor, r.offset, sm, quit_times)
                /\ UNCHANGED document
       ELSE /\ UNCHANGED <<rows, highlighted_word>>
            /\ IF ~query.some
               THEN /\ process_event_tail(cursor_position, offset,
                                          Msg(AbortedText), quit_times)
                    /\ UNCHANGED <<filename, dirty>>
               ELSE /\ filename' = query
                    /\ \E ok \in BOOLEAN :
                          /\ dirty' = document_save(ok, dirty)
                          /\ process_event_tail(cursor_position, offset,
                                                save_status(ok), quit_times)

\* self.refresh_screen()? in the loop of prompt succeeds
PromptRefreshOk ==
    /\ pc = "prompt_refresh"
    /\ pc' = "prompt_read"
    /\ screen' = refresh_screen(should_quit, offset, size, rows, "ok")
    /\ UNCHANGED <<size, should_quit, cursor_position, offset, document,
                   status_message, quit_times, highlighted_word,
                   prompt_locals, event, prompt_event>>

\* self.refresh_screen()? fails: prompt returns Err, unwrap_or_default
\* turns it into None
PromptRefreshErr ==
    /\ pc = "prompt_refresh"
    /\ \E outcome \in RefreshErrors(should_quit) :
          screen' = refresh_screen(should_quit, offset, size, rows, outcome)
    /\ prompt_return(None, status_message)
    /\ UNCHANGED <<size, should_quit, event, prompt_event>>

\* Terminal::read_event()? fails in prompt
PromptReadErr ==
    /\ pc = "prompt_read"
    /\ prompt_return(None, status_message)
    /\ UNCHANGED <<size, screen, should_quit, event, prompt_event>>

PromptFrame == UNCHANGED <<size, screen, should_quit, document, quit_times,
                           prompt_kind, old_position, event>>

prompt_backspace ==
    /\ pc = "prompt_read"
    /\ prompt_event' = Key("Backspace")
    /\ result' = SubSeq(result, 1, SatSub(Len(result), 1))
    /\ callback(prompt_event', result')
    /\ PromptFrame

\* Char('\n'): break
prompt_enter ==
    /\ pc = "prompt_read"
    /\ prompt_event' = CharKey(NL)
    /\ prompt_return(IF result = <<>> THEN None ELSE Some(result), Msg(""))
    /\ UNCHANGED <<size, screen, should_quit, event>>

prompt_char(c) ==
    /\ pc = "prompt_read"
    /\ Len(result) < MaxQuery
    /\ prompt_event' = CharKey(c)
    /\ result' = Append(result, c)
    /\ callback(prompt_event', result')
    /\ PromptFrame

\* Esc that breaks without result.truncate(0)
prompt_esc_keeps_input ==
    /\ pc = "prompt_read"
    /\ prompt_event' = Key("Esc")
    /\ prompt_return(IF result = <<>> THEN None ELSE Some(result), Msg(""))
    /\ UNCHANGED <<size, screen, should_quit, event>>

\* Esc: result.truncate(0); break
prompt_esc ==
    /\ pc = "prompt_read"
    /\ prompt_event' = Key("Esc")
    /\ prompt_return(None, Msg(""))
    /\ UNCHANGED <<size, screen, should_quit, event>>

\* any other event: the input is unchanged and the callback runs
prompt_other(e) ==
    /\ pc = "prompt_read"
    /\ prompt_event' = e
    /\ result' = result
    /\ callback(prompt_event', result')
    /\ PromptFrame

(***************************************************************************)
(* The editor.                                                             *)
(***************************************************************************)
TypedKeys == {CharKey(c) : c \in Chars \cup {NL}} \cup {ShiftKey(c) : c \in Chars}
MainIgnored == PlainKeys \cup {NonKey}
PromptOthers == {Key("Right"), Key("Down"), Key("Left"), Key("Up"),
                 Key("OtherKey"), NonKey}

Next ==
    \/ RefreshScreenOk
    \/ RefreshScreenErr
    \/ ReadEventErr
    \/ quit
    \/ save_named
    \/ save_prompt
    \/ search_prompt
    \/ \E e \in TypedKeys : insert_key(e)
    \/ \E e \in MainIgnored : ignored_key(e)
    \/ PromptRefreshOk
    \/ PromptRefreshErr
    \/ PromptReadErr
    \/ prompt_backspace
    \/ prompt_enter
    \/ \E c \in Chars : prompt_char(c)
    \/ prompt_esc
    \/ \E e \in PromptOthers : prompt_other(e)

Spec == Init /\ [][Next]_vars

TypeOK ==
    /\ pc \in {"main_refresh", "main_read", "prompt_refresh", "prompt_read",
                "run_ok", "run_err_refresh", "run_err_event",
                "unit_start", "unit_moved",
                "unit_scrolled"}
    /\ cursor_position.x >= 0 /\ cursor_position.y >= 0
    /\ Len(rows) <= MaxRows

(***************************************************************************)
(* move_cursor and scroll on their own: any document within the bounds,    *)
(* any valid cursor, any offset; each step calls one of them.              *)
(***************************************************************************)
Strings(n) == UNION {[1..k -> Chars] : k \in 0..n}
UnitDocs == UNION {[1..k -> Strings(MaxRowLen)] : k \in 0..MaxRows}
MoveKeys == {"Up", "Down", "Left", "Right", "PageUp", "PageDown", "Home", "End"}

ValidPosition(p, rws) == p.y <= Len(rws) /\ p.x <= RowLen(rws, p.y)

InitUnit ==
    /\ pc = "unit_start"
    /\ size \in Sizes
    /\ rows \in UnitDocs
    /\ cursor_position \in [x : 0..MaxRowLen, y : 0..MaxRows]
    /\ ValidPosition(cursor_position, rows)
    /\ offset \in [x : 0..MaxCoord, y : 0..MaxCoord]
    /\ should_quit = FALSE
    /\ filename = None
    /\ dirty = FALSE
    /\ status_message = Msg(HelpText)
    /\ quit_times = QUIT_TIME
    /\ highlighted_word = None
    /\ prompt_kind = "none"
    /\ result = <<>>
    /\ old_position = Position(0, 0)
    /\ direction = "Forward"
    /\ event = NoEvent
    /\ prompt_event = NoEvent
    /\ screen = NoScreen

UnitFrame == UNCHANGED <<size, screen, should_quit, document, status_message,
                         quit_times, highlighted_word, prompt_kind, result,
                         direction, prompt_event>>

\* let old_position = self.cursor_position.clone(); self.move_cursor(k)
call_move_cursor(k) ==
    /\ pc \in {"unit_start", "unit_moved", "unit_scrolled"}
    /\ event' = Key(k)
    /\ old_position' = cursor_position
    /\ cursor_position' = move_cursor(cursor_position, rows, size, k)
    /\ pc' = "unit_moved"
    /\ UNCHANGED offset
    /\ UnitFrame

\* self.scroll()
call_scroll ==
    /\ pc \in {"unit_start", "unit_moved"}
    /\ offset' = scroll(cursor_position, offset, size)
    /\ pc' = "unit_scrolled"
    /\ UNCHANGED <<cursor_position, event, old_position>>
    /\ UnitFrame

NextUnit ==
    \/ \E k \in MoveKeys : call_move_cursor(k)
    \/ call_scroll

SpecUnit == InitUnit /\ [][NextUnit]_vars

(***************************************************************************)
(* Properties.                                                             *)
(***************************************************************************)
Visible(cur, off, sz) ==
    /\ off.y <= cur.y /\ cur.y < off.y + sz.height
    /\ off.x <= cur.x /\ cur.x < off.x + sz.width

\* C1: at the start of every redraw, in the main loop or inside a prompt,
\* the cursor lies in the visible window on both axes.
C1_CursorVisibleAtRedraw ==
    pc \in {"main_refresh", "prompt_refresh"}
        => Visible(cursor_position, offset, size)

\* C2: in every reachable state the cursor is a valid buffer position
\* (y <= rows.len(), x <= length of row y, 0 on the row past the end), so
\* Document.insert is never called with position.y > rows.len().
C2_CursorValid ==
    /\ ValidPosition(cursor_position, rows)
    /\ pc = "main_read" => insert_ok(rows, cursor_position)

\* a search prompt has moved the cursor of a document that was typed
C2_Witness ==
    /\ pc = "prompt_refresh"
    /\ prompt_kind = "search"
    /\ dirty
    /\ prompt_event = Key("Right")
    /\ cursor_position # old_position

Abs(n) == IF n < 0 THEN 0 - n ELSE n

InWindow(c, o, extent) == o <= c /\ c < o + extent

\* o2 is the offset closest to o for which c is visible
MinimalJump(c, o, extent, o2) ==
    /\ InWindow(c, o2, extent)
    /\ \A v \in 0..c : InWindow(c, v, extent) => Abs(o2 - o) <= Abs(v - o)

ScrollCases(c, o, extent, o2) ==
    /\ InWindow(c, o, extent) => o2 = o
    /\ c < o => o2 = c
    /\ c >= o + extent => o2 = c - extent + 1

\* C3: scroll is minimal-jump on each axis: the new offset coordinate is
\* the value closest to the old one for which the cursor is visible
\* (unchanged if visible, the cursor if it was above/left, cursor - size + 1
\* if it was at or beyond offset + size).
C3_ScrollMinimalJump ==
    [][pc' = "unit_scrolled" =>
        /\ MinimalJump(cursor_position.x, offset.x, size.width, offset'.x)
        /\ MinimalJump(cursor_position.y, offset.y, size.height, offset'.y)
        /\ ScrollCases(cursor_position.x, offset.x, size.width, offset'.x)
        /\ ScrollCases(cursor_position.y, offset.y, size.height, offset'.y)]_vars

\* scroll has advanced the offset by what brings the cursor's row to the
\* bottom of the window and has snapped the column offset to the cursor
C3_Witness ==
    /\ pc = "unit_scrolled"
    /\ offset.y > 0
    /\ offset.y = cursor_position.y - size.height + 1
    /\ offset.x = cursor_position.x
    /\ size.width > 1

\* C4: when a search prompt is aborted with Esc, after any keystrokes and
\* navigation inside the prompt, the cursor is the one the search started
\* with, the document is unchanged and highlighted_word is None.
C4_SearchCancelRestores ==
    [][/\ (pc = "main_read" /\ prompt_kind' = "search")
            => old_position' = cursor_position
       /\ (prompt_kind = "search" /\ prompt_kind' = "search")
            => (old_position' = old_position /\ document' = document)
       /\ (prompt_kind = "search" /\ pc = "prompt_read"
              /\ prompt_event' = Key("Esc"))
            => /\ pc' = "main_refresh"
               /\ cursor_position' = old_position
               /\ document' = document
               /\ highlighted_word' = None]_vars

\* a search in a typed document has just been cancelled with Esc
C4_Witness ==
    /\ pc = "main_refresh"
    /\ event = CtrlKey("f")
    /\ prompt_event = Key("Esc")
    /\ dirty
    /\ cursor_position # Position(0, 0)
    /\ highlighted_word = None

\* the step is a call of Document.save: Ctrl-S on a named document, or the
\* Save-as prompt confirmed with a name
SaveAttempt ==
    \/ /\ pc = "main_read" /\ pc' # "run_err_event"
       /\ event' = CtrlKey("s") /\ filename.some
    \/ /\ pc = "prompt_read" /\ prompt_kind = "save"
       /\ prompt_event' = CharKey(NL) /\ result # <<>>

\* C5: if the write performed by Ctrl-S fails, rows, filename and dirty
\* flag are as before Ctrl-S (the filename still unset if the document was
\* unnamed); only the status message changes, to "Error writing file!".
C5_FailedSaveKeepsDocument ==
    [][(SaveAttempt /\ status_message' = Msg(WriteErrText))
          => (rows' = rows /\ filename' = filename /\ dirty' = dirty)]_vars

\* C6 as stated: run returns an error only when a redraw fails.
C6_ErrOnlyFromRedraw ==
    [][pc' \in {"run_err_refresh", "run_err_event"}
          => (pc = "main_refresh" /\ pc' = "run_err_refresh")]_vars

\* C6 amended: run returns an error only when a redraw of the main loop
\* fails or when Terminal::read_event fails in process_event; a failure of
\* Document.insert or Document.save becomes a status message, leaves cursor
\* and offset as they were, and the loop goes on to the next redraw.
C6_ErrOnlyFromTerminal ==
    [][/\ pc' \in {"run_err_refresh", "run_err_event"}
            => \/ pc = "main_refresh" /\ pc' = "run_err_refresh"
               \/ /\ pc = "main_read" /\ pc' = "run_err_event"
                  /\ event' = event /\ document' = document
       /\ SaveAttempt
            => /\ pc' = "main_refresh"
               /\ cursor_position' = cursor_position
               /\ offset' = offset
               /\ \/ status_message' = Msg(WriteErrText) /\ dirty' = dirty
                  \/ status_message' = Msg(SavedText) /\ ~dirty'
       /\ (pc = "main_read" /\ pc' # "run_err_event" /\ event' \in TypedKeys
              /\ ~insert_ok(rows, cursor_position))
            => /\ pc' = "main_refresh"
               /\ cursor_position' = cursor_position
               /\ offset' = offset
               /\ status_message' = Msg(InsertErrText)]_vars

\* a write failed on a document with unsaved changes and the loop is about
\* to redraw
C6_Witness ==
    /\ pc = "main_refresh"
    /\ status_message = Msg(WriteErrText)
    /\ dirty
    /\ event = CtrlKey("s")

\* C7: on a document with unsaved changes the first Ctrl-Q warns, and a
\* second Ctrl-Q pressed immediately afterwards sets should_quit.
C7_SecondCtrlQQuits ==
    [][(/\ pc = "main_read" /\ event = CtrlKey("q") /\ dirty /\ ~should_quit
        /\ event' = CtrlKey("q") /\ pc' = "main_refresh")
          => should_quit']_vars

\* C8: Left gives (x-1, y) at x > 0, the end of the previous row at x = 0
\* with y > 0, and nothing at (0, 0); Right gives (x+1, y) inside the row,
\* (0, y+1) at the end of a row y < rows.len(), and nothing on the row past
\* the end.
C8_LeftRightWrap ==
    [][LET x == cursor_position.x
           y == cursor_position.y
       IN  /\ (pc' = "unit_moved" /\ event' = Key("Left"))
                => cursor_position' =
                     IF x > 0 THEN Position(x - 1, y)
                     ELSE IF y > 0 THEN Position(RowLen(rows, y - 1), y - 1)
                     ELSE Position(0, 0)
           /\ (pc' = "unit_moved" /\ event' = Key("Right"))
                => cursor_position' =
                     IF y = Len(rows) THEN Position(x, y)
                     ELSE IF x < Len(rows[y + 1]) THEN Position(x + 1, y)
                     ELSE Position(0, y + 1)]_vars

\* Left at column 0 has moved the cursor to the end of a non-empty row
C8_Witness ==
    /\ pc = "unit_moved"
    /\ event = Key("Left")
    /\ old_position.x = 0
    /\ old_position.y = cursor_position.y + 1
    /\ cursor_position.x = RowLen(rows, cursor_position.y)
    /\ cursor_position.x > 0

\* C9: Up yields y' = max(y - 1, 0), Down yields y' = min(y + 1, rows.len());
\* the column does not grow and the row never exceeds rows.len().
C9_UpDownSaturate ==
    [][LET y == cursor_position.y
       IN  /\ (pc' = "unit_moved" /\ event' = Key("Up"))
                => cursor_position'.y = (IF y - 1 > 0 THEN y - 1 ELSE 0)
           /\ (pc' = "unit_moved" /\ event' = Key("Down"))
                => cursor_position'.y = Min(y + 1, Len(rows))
           /\ (pc' = "unit_moved" /\ event' \in {Key("Up"), Key("Down")})
                => /\ cursor_position'.y <= Len(rows)
                   /\ cursor_position'.x <= cursor_position.x]_vars

\* Down on the row past the end has left the row where it was
C9_Witness ==
    /\ pc = "unit_moved"
    /\ event = Key("Down")
    /\ old_position.y = Len(rows)
    /\ cursor_position.y = Len(rows)
    /\ Len(rows) > 0

VerticalKeys == {Key("Up"), Key("Down"), Key("PageUp"), Key("PageDown")}

\* C10: after Up, Down, PageUp or PageDown from (x, y) the column is
\* min(x, length of the target row), a row at or past rows.len() counting
\* as length 0.
C10_VerticalClamp ==
    [][(pc' = "unit_moved" /\ event' \in VerticalKeys)
          => /\ cursor_position'.x =
                   Min(cursor_position.x, RowLen(rows, cursor_position'.y))
             /\ cursor_position'.x <= RowLen(rows, cursor_position'.y)]_vars

\* a vertical move has landed on a shorter row and the column was cut
C10_Witness ==
    /\ pc = "unit_moved"
    /\ event \in VerticalKeys
    /\ old_position.y # cursor_position.y
    /\ cursor_position.x < old_position.x
    /\ cursor_position.x = RowLen(rows, cursor_position.y)

\* C11: PageUp yields y' = max(y - H, 0) and PageDown yields
\* y' = min(y + H, rows.len()), H being the height of the viewport.
C11_PageUpDownSaturate ==
    [][LET y == cursor_position.y
           H == size.height
       IN  /\ (pc' = "unit_moved" /\ event' = Key("PageUp"))
                => cursor_position'.y = (IF y - H > 0 THEN y - H ELSE 0)
           /\ (pc' = "unit_moved" /\ event' = Key("PageDown"))
                => cursor_position'.y = Min(y + H, Len(rows))]_vars

\* PageDown has moved the cursor by a whole viewport of more than one row
C11_Witness ==
    /\ pc = "unit_moved"
    /\ event = Key("PageDown")
    /\ size.height > 1
    /\ cursor_position.y = old_position.y + size.height
    /\ cursor_position.y <= Len(rows)

\* C12: when the Save-as prompt is aborted with Esc or confirmed with empty
\* input, the typed input is discarded: the filename stays unset,
\* Document.save is not called, rows and dirty flag are unchanged and the
\* status message is "Save aborted.".
C12_SaveAsAborted ==
    [][(/\ pc = "prompt_read" /\ prompt_kind = "save"
        /\ \/ prompt_event' = Key("Esc")
           \/ prompt_event' = CharKey(NL) /\ result = <<>>)
          => /\ pc' = "main_refresh"
             /\ ~filename.some /\ filename' = filename
             /\ rows' = rows
             /\ dirty' = dirty
             /\ status_message' = Msg(AbortedText)]_vars

\* the Save-as prompt of a document with unsaved changes has just been
\* aborted with Esc
C12_Witness ==
    /\ pc = "main_refresh"
    /\ event = CtrlKey("s")
    /\ prompt_event = Key("Esc")
    /\ status_message = Msg(AbortedText)
    /\ dirty
    /\ ~filename.some

Redraw == pc \in {"main_refresh", "prompt_refresh"} /\ ~should_quit

\* in the redraw just made, every row drawn is a row of the window, lies
\* below the bound given to highlight, and none is drawn if highlight failed
DrawnRowsHighlighted ==
    /\ screen'.until_row = Some(offset.y + size.height)
    /\ \A r \in screen'.drawn : r < screen'.until_row.val
    /\ screen'.highlight_ok
         => screen'.drawn = {r \in offset.y..(offset.y + size.height - 1) :
                               r < Len(rows)}
    /\ ~screen'.highlight_ok => screen'.drawn = {}

\* the part of C13 that does not depend on the offset being up to date
DrawnRowsAlwaysHighlighted == [][Redraw => DrawnRowsHighlighted]_vars

\* C13: in every redraw highlight runs before any row is drawn and covers
\* every row drawn (each is below offset.y + height, the bound passed to
\* highlight), with the offset already recomputed for the latest cursor
\* change; if highlight fails no row is drawn.
C13_HighlightCoversDrawnRows ==
    [][Redraw => /\ offset = scroll(cursor_position, offset, size)
                 /\ DrawnRowsHighlighted]_vars

\* C14: after Ctrl-Q on a document with unsaved changes, the status message
\* at the next redraw is the warning and quit_times is still below QUIT_TIME
\* when the next event is read.
C14_WarningShownAfterCtrlQ ==
    (/\ pc \in {"main_refresh", "main_read"}
     /\ event = CtrlKey("q") /\ dirty /\ ~should_quit)
        => /\ status_message = StatusMessage(WarningText, <<QUIT_TIME>>)
           /\ quit_times < QUIT_TIME

CleanQuit ==
    /\ pc = "main_read" /\ pc' = "main_refresh"
    /\ event' = CtrlKey("q") /\ ~dirty

\* the steps of a run that has should_quit set, ending in one of the pcs
QuitsWithin(ends) ==
    /\ CleanQuit => should_quit'
    /\ should_quit => /\ should_quit'
                      /\ pc = "main_refresh"
                      /\ pc' \in ends
                      /\ screen'.cleared /\ screen'.drawn = {}
                      /\ screen'.until_row = None
                      /\ document' = document
                      /\ event' = event /\ prompt_event' = prompt_event

C16_NoQuitOfDirtyWithoutConfirm ==
    [][(~should_quit /\ should_quit' /\ dirty)
          => (pc = "main_read" /\ event = CtrlKey("q")
                /\ event' = CtrlKey("q"))]_vars

\* Ctrl-Q has just been pressed on a document with unsaved changes, after
\* another event, and the editor has not quit
C16_Witness ==
    /\ pc = "main_refresh"
    /\ event = CtrlKey("q")
    /\ dirty
    /\ ~should_quit

PrintableKeys == {CharKey(c) : c \in Chars} \cup {ShiftKey(c) : c \in Chars}

\* C17: typing a printable character c at cursor (x, y) puts c at index x of
\* row y and leaves the cursor at (x+1, y); on the row past the end it
\* appends a row holding only c and leaves the cursor at (1, y); the
\* document is dirty afterwards.
C17_TypedCharAtCursor ==
    [][(pc = "main_read" /\ pc' = "main_refresh" /\ event' \in PrintableKeys)
          => LET x == cursor_position.x
                 y == cursor_position.y
                 c == event'[2]
             IN  /\ dirty'
                 /\ IF y < Len(rows)
                    THEN /\ rows' = [rows EXCEPT ![y + 1] =
                                       SubSeq(@, 1, x) \o <<c>>
                                         \o SubSeq(@, x + 1, Len(@))]
                         /\ cursor_position' = Position(x + 1, y)
                    ELSE /\ rows' = Append(rows, <<c>>)
                         /\ cursor_position' = Position(1, y)]_vars

\* "a" has been typed in front of the "b" of the opened file
C17_Witness ==
    /\ pc = "main_refresh"
    /\ event = CharKey("a")
    /\ rows = <<<<"a", "b">>>>
    /\ cursor_position = Position(1, 0)
    /\ dirty

\* the first occurrence of q that starts strictly after position at, in
\* document order, wrapping to the first one of the document
NextOccurrence(rws, q, at) ==
    LET all == Matches(rws, q)
        later == {p \in all : Before(at, p)}
        S == IF later # {} THEN later ELSE all
    IN  CHOOSE p \in S : \A o \in S : p = o \/ Before(p, o)

SearchForwardKey ==
    /\ pc = "prompt_read" /\ pc' = "prompt_refresh"
    /\ prompt_kind = "search"
    /\ prompt_event' \in {Key("Right"), Key("Down")}

\* C18: in the search prompt, with a query that occurs in the buffer, Right
\* or Down moves the cursor to the first occurrence that starts strictly
\* after the cursor, wrapping from the last row to row 0; none is skipped.
C18_SearchNextSkipsNone ==
    [][(SearchForwardKey /\ Matches(rows, result) # {})
          => cursor_position' =
               NextOccurrence(rows, result, cursor_position)]_vars

\* C19: in the search prompt, when Right or Down is pressed and find reports
\* no match, cursor and offset are as before the keypress.
C19_NoMatchLeavesCursor ==
    [][(/\ SearchForwardKey
        /\ ~find(rows, result,
                 move_cursor(cursor_position, rows, size, "Right"),
                 "Forward").some)
          => /\ cursor_position' = cursor_position
             /\ offset' = offset]_vars

\* C20: highlighted_word is None when the main loop redraws or reads and
\* during a Save-as prompt; it is set only while a search prompt is active,
\* to the current query.
C20_HighlightOnlyInSearch ==
    /\ pc \in {"main_refresh", "main_read", "run_ok", "run_err_refresh",
               "run_err_event"} => highlighted_word = None
    /\ prompt_kind = "save" => highlighted_word = None
    /\ highlighted_word.some
         => /\ prompt_kind = "search"
            /\ pc \in {"prompt_refresh", "prompt_read"}
            /\ highlighted_word.val = result

\* a search that had highlighted its query was confirmed and has ended
C20_Witness ==
    /\ pc = "main_read"
    /\ event = CtrlKey("f")
    /\ prompt_event = CharKey(NL)
    /\ highlighted_word = None
    /\ rows = <<<<"a">>>>
    /\ dirty
    /\ cursor_position = Position(0, 0)

====
